---- MODULE Spec2Model ----
(***************************************************************************)
(* SMS gateway resilience layer: the per-provider CircuitBreaker           *)
(* (src/utils/circuit_breaker.py), the provider strategies                 *)
(* (src/utils/sms_strategy.py) and the SMSOrchestrator                     *)
(* (src/utils/sms_orchestrator.py).                                        *)
(*                                                                         *)
(* The program runs on one asyncio event loop: the code between two awaits *)
(* that suspend runs without interleaving, so every action below is one    *)
(* such run.  Breaker methods are synchronous and therefore atomic.        *)
(***************************************************************************)
EXTENDS Integers, Sequences, FiniteSets, TLC

\* ------------------------------------------------------------------ bounds
MaxThreshold == 2      \* failure_threshold is drawn from 1..MaxThreshold
MaxTimeout   == 2      \* reset_timeout is drawn from 1..MaxTimeout
MaxTime      == 2      \* the clock time.time() runs over 0..MaxTime
MaxSuccess   == 1      \* success_count is kept within 0..MaxSuccess
MaxProviders == 3      \* the orchestrator is built with 0..MaxProviders adapters
MaxRetries   == 2      \* max_retries is drawn from 0..MaxRetries
MaxRetryProviders == 2 \* adapters of the orchestrator under send_sms_with_retry
NumSenders   == 3      \* concurrent failing sends sharing one breaker

\* ------------------------------------------------------- CircuitBreakerState
CLOSED    == "CLOSED"
OPEN      == "OPEN"
HALF_OPEN == "HALF_OPEN"

\* last_failure_time = None
NoTime == -1

VARIABLES
    cb,         \* adapter id -> its CircuitBreaker object
    now,        \* time.time()
    providers,  \* SMSOrchestrator.providers: the ordered list of adapter ids
    task,       \* task id -> the position and locals of its coroutine
    op,         \* the last breaker method called directly: name, return value
                \* and the breaker before the call
    hist        \* task id -> what its current call has done so far

vars == <<cb, now, providers, task, op, hist>>

\* ------------------------------------------------------------ CircuitBreaker
\* CircuitBreaker.__init__
NewBreaker(threshold, timeout) ==
    [ failure_threshold |-> threshold,
      reset_timeout     |-> timeout,
      state             |-> CLOSED,
      failure_count     |-> 0,
      success_count     |-> 0,
      last_failure_time |-> NoTime ]

\* Mutant: the transition to Open does not record the failure time.
transition_to_open_no_time(b, t) ==
    [b EXCEPT !.state = OPEN, !.success_count = 0]

\* Mutant: the transition to Open keeps the old failure time.
transition_to_open_stale(b, t) ==
    [b EXCEPT !.state = OPEN,
              !.last_failure_time = IF @ = NoTime THEN t ELSE @,
              !.success_count = 0]

\* CircuitBreaker._transition_to_open
transition_to_open(b, t) ==
    [b EXCEPT !.state = OPEN, !.last_failure_time = t, !.success_count = 0]

\* Mutant: the transition to HalfOpen does not change the state.
transition_to_half_open_lost(b) == [b EXCEPT !.success_count = 0]

\* CircuitBreaker._transition_to_half_open
transition_to_half_open(b) ==
    [b EXCEPT !.state = HALF_OPEN, !.success_count = 0]

\* Mutant: the transition to Closed keeps failure_count.
transition_to_closed_keeps_count(b) ==
    [b EXCEPT !.state = CLOSED, !.last_failure_time = NoTime]

\* CircuitBreaker._transition_to_closed
transition_to_closed(b) ==
    [b EXCEPT !.state = CLOSED, !.failure_count = 0, !.last_failure_time = NoTime]

\* Mutant: an Open breaker is never probed.
can_execute_no_probe(b, t) ==
    [cb |-> b, ret |-> b.state # OPEN]

\* Mutant: a denial is counted as a failure.
can_execute_denial_counts(b, t) ==
    IF b.state = CLOSED THEN [cb |-> b, ret |-> TRUE]
    ELSE IF b.state = OPEN THEN
        IF b.last_failure_time # NoTime
           /\ t - b.last_failure_time >= b.reset_timeout
        THEN [cb |-> transition_to_half_open(b), ret |-> TRUE]
        ELSE [cb |-> [b EXCEPT !.failure_count = @ + 1], ret |-> FALSE]
    ELSE [cb |-> b, ret |-> TRUE]

\* Mutant: the timeout test is strict (> instead of >=).
can_execute_strict(b, t) ==
    IF b.state = CLOSED THEN [cb |-> b, ret |-> TRUE]
    ELSE IF b.state = OPEN THEN
        IF b.last_failure_time = NoTime THEN [cb |-> b, ret |-> FALSE]
        ELSE IF t - b.last_failure_time > b.reset_timeout
             THEN [cb |-> transition_to_half_open(b), ret |-> TRUE]
             ELSE [cb |-> b, ret |-> FALSE]
    ELSE [cb |-> b, ret |-> TRUE]

\* CircuitBreaker.can_execute at clock t: the breaker after the call and the
\* value returned
can_execute(b, t) ==
    IF b.state = CLOSED THEN [cb |-> b, ret |-> TRUE]
    ELSE IF b.state = OPEN THEN
        IF b.last_failure_time = NoTime THEN [cb |-> b, ret |-> FALSE]
        ELSE IF t - b.last_failure_time >= b.reset_timeout
             THEN [cb |-> transition_to_half_open(b), ret |-> TRUE]
             ELSE [cb |-> b, ret |-> FALSE]
    ELSE IF b.state = HALF_OPEN THEN [cb |-> b, ret |-> TRUE]
    ELSE [cb |-> b, ret |-> FALSE]

\* Mutant: a success while Closed leaves failure_count as it is.
record_success_keeps_count(b) ==
    IF b.state = CLOSED THEN [b EXCEPT !.success_count = @ + 1]
    ELSE IF b.state = HALF_OPEN THEN
        transition_to_closed([b EXCEPT !.success_count = @ + 1])
    ELSE b

\* CircuitBreaker.record_success
record_success(b) ==
    IF b.state = CLOSED THEN
        [b EXCEPT !.failure_count = IF @ > 0 THEN 0 ELSE @,
                  !.success_count = @ + 1]
    ELSE IF b.state = HALF_OPEN THEN
        transition_to_closed([b EXCEPT !.success_count = @ + 1])
    ELSE b

\* Mutant: every failure while Closed sets last_failure_time.
record_failure_sets_time(b, t) ==
    IF b.state = CLOSED THEN
        LET c == [b EXCEPT !.failure_count = @ + 1, !.last_failure_time = t]
        IN  IF c.failure_count >= c.failure_threshold
            THEN transition_to_open(c, t)
            ELSE c
    ELSE IF b.state = HALF_OPEN THEN transition_to_open(b, t)
    ELSE b

\* Mutant: a failure while Open opens the breaker again.
record_failure_refreshes_open(b, t) ==
    IF b.state = CLOSED THEN
        LET c == [b EXCEPT !.failure_count = @ + 1]
        IN  IF c.failure_count >= c.failure_threshold
            THEN transition_to_open(c, t)
            ELSE c
    ELSE transition_to_open(b, t)

\* Mutant: a failure is counted in every state.
record_failure_counts_open(b, t) ==
    IF b.state = CLOSED THEN
        LET c == [b EXCEPT !.failure_count = @ + 1]
        IN  IF c.failure_count >= c.failure_threshold
            THEN transition_to_open(c, t)
            ELSE c
    ELSE transition_to_open([b EXCEPT !.failure_count = @ + 1], t)

\* Mutant: the threshold test is strict (> instead of >=).
record_failure_strict(b, t) ==
    IF b.state = CLOSED THEN
        LET c == [b EXCEPT !.failure_count = @ + 1]
        IN  IF c.failure_count > c.failure_threshold
            THEN transition_to_open(c, t)
            ELSE c
    ELSE IF b.state = HALF_OPEN THEN transition_to_open(b, t)
    ELSE b

\* CircuitBreaker.record_failure at clock t
record_failure(b, t) ==
    IF b.state = CLOSED THEN
        LET c == [b EXCEPT !.failure_count = @ + 1]
        IN  IF c.failure_count >= c.failure_threshold
            THEN transition_to_open(c, t)
            ELSE c
    ELSE IF b.state = HALF_OPEN THEN transition_to_open(b, t)
    ELSE b

\* Mutant: reset only closes a breaker that is not Closed already, as a
\* state-change guard would.
reset_if_not_closed(b) ==
    IF b.state = CLOSED THEN b ELSE transition_to_closed(b)

\* CircuitBreaker.reset
reset(b) == transition_to_closed(b)

\* CircuitBreaker.get_status at clock t: the breaker after the call (the
\* snapshot calls can_execute) and the dict returned.  "state",
\* "failure_count" and "success_count" are read before can_execute runs.
get_status(b, t) ==
    LET ce  == can_execute(b, t)
        lft == ce.cb.last_failure_time
        since == IF lft # NoTime THEN t - lft ELSE NoTime
    IN  [ cb |-> ce.cb,
          status |->
            [ state         |-> b.state,
              failure_count |-> b.failure_count,
              success_count |-> b.success_count,
              can_execute   |-> ce.ret,
              time_since_last_failure |-> since,
              remaining_timeout |->
                  IF lft # NoTime
                  THEN (IF ce.cb.reset_timeout - since > 0
                        THEN ce.cb.reset_timeout - since ELSE 0)
                  ELSE NoTime ] ]

\* ---------------------------------------------------------- SMSResponse
\* schema.SMSResponse without its timestamp; error None is <<>>
SMSResponse(success, message_id, provider, error) ==
    [ success |-> success, message_id |-> message_id,
      provider |-> provider, error |-> error ]

NoResponse == SMSResponse(FALSE, "", "", <<>>)

\* ------------------------------------------------------------- exceptions
\* The classes the strategies' and the orchestrator's handlers tell apart
ExcParent(c) ==
    CASE c = "HTTPStatusError" -> "HTTPError"
      [] c = "RequestError"    -> "HTTPError"
      [] c = "HTTPError"       -> "Exception"
      [] c = "ValidationError" -> "ValueError"
      [] c = "ValueError"      -> "Exception"
      [] c = "KeyError"        -> "LookupError"
      [] c = "LookupError"     -> "Exception"
      [] c = "Exception"       -> "BaseException"
      [] c = "CancelledError"  -> "BaseException"
      [] OTHER                 -> "object"

RECURSIVE IsSubclass(_, _)
IsSubclass(c, base) ==
    IF c = base THEN TRUE
    ELSE IF c = "object" THEN FALSE
    ELSE IsSubclass(ExcParent(c), base)

Exc(class, msg) == [class |-> class, msg |-> msg]
NoExc == Exc("none", <<>>)

\* --------------------------------------------------------------- strategies
\* SMSProviderFactory._providers: the registered strategies in order; an
\* adapter with an odd id is an ArkeselStrategy, with an even id a
\* MnotifyStrategy
Kind(a) == IF a % 2 = 1 THEN "arkesel" ELSE "mnotify"

\* What the provider's HTTP API can answer to client.post:
\*   transport_error    the request fails (httpx.RequestError)
\*   http_status_error  a 4xx/5xx status (raise_for_status raises)
\*   api_error          a body whose "status" is not "success"
\*   success            "status" == "success" with a string message id
\*   success_no_id      "status" == "success" without the id's key
\*                      ("message_id" for Arkesel, "summary" for Mnotify)
\*   success_null_id    "status" == "success" with a null id
\* and, when the task is cancelled while it waits for the answer,
\*   cancelled          the await raises asyncio.CancelledError
FailingResponses == {"transport_error", "http_status_error", "api_error"}
Responses ==
    FailingResponses \cup {"success", "success_no_id", "success_null_id"}

\* The value of message_id the strategy passes to SMSResponse, or the
\* exception the lookup raises: result.get("message_id", "") for Arkesel,
\* result["summary"].get("_id") for Mnotify
MessageId(kind, resp) ==
    IF resp = "success" THEN [exc |-> NoExc, id |-> "id"]
    ELSE IF resp = "success_null_id" THEN [exc |-> NoExc, id |-> "None"]
    ELSE IF kind = "arkesel" THEN [exc |-> NoExc, id |-> ""]
    ELSE [exc |-> Exc("KeyError", <<"summary">>), id |-> "None"]

\* The try block of send_sms once client.post has returned: the breaker
\* after it, the record_success() calls made, and the exception raised or
\* the SMSResponse returned.  SMSResponse rejects a message_id that is
\* not a string (message_id: str).
TryBlock(kind, b, resp) ==
    IF resp = "cancelled" THEN
        [cb |-> b, nsucc |-> 0, response |-> NoResponse,
         exc |-> Exc("CancelledError", <<>>)]
    ELSE IF resp = "transport_error" THEN
        [cb |-> b, nsucc |-> 0, response |-> NoResponse,
         exc |-> Exc("RequestError", <<kind, "request failed">>)]
    ELSE IF resp = "http_status_error" THEN
        [cb |-> b, nsucc |-> 0, response |-> NoResponse,
         exc |-> Exc("HTTPStatusError", <<kind, "status">>)]
    ELSE IF resp = "api_error" THEN
        [cb |-> b, nsucc |-> 0, response |-> NoResponse,
         exc |-> Exc("Exception", <<kind, "API error">>)]
    ELSE
        LET b1 == record_success(b)
            m  == MessageId(kind, resp)
        IN  IF m.exc # NoExc THEN
                [cb |-> b1, nsucc |-> 1, response |-> NoResponse, exc |-> m.exc]
            ELSE IF m.id = "None" THEN
                [cb |-> b1, nsucc |-> 1, response |-> NoResponse,
                 exc |-> Exc("ValidationError", <<"message_id">>)]
            ELSE
                [cb |-> b1, nsucc |-> 1, exc |-> NoExc,
                 response |-> SMSResponse(TRUE, m.id, kind, <<>>)]

\* send_sms of a strategy from the return of client.post to its own return
\* or raise, at clock t: the try block and its two except clauses
StrategyComplete(kind, b, t, resp) ==
    LET r == TryBlock(kind, b, resp)
    IN  IF r.exc = NoExc THEN
            [cb |-> r.cb, nsucc |-> r.nsucc, nfail |-> 0,
             exc |-> NoExc, response |-> r.response]
        ELSE IF IsSubclass(r.exc.class, "HTTPStatusError") THEN
            [cb |-> record_failure(r.cb, t), nsucc |-> r.nsucc, nfail |-> 1,
             exc |-> Exc("Exception", <<kind, "HTTP error">>),
             response |-> NoResponse]
        ELSE IF IsSubclass(r.exc.class, "Exception") THEN
            [cb |-> record_failure(r.cb, t), nsucc |-> r.nsucc, nfail |-> 1,
             exc |-> r.exc, response |-> NoResponse]
        ELSE
            [cb |-> r.cb, nsucc |-> r.nsucc, nfail |-> 0,
             exc |-> r.exc, response |-> NoResponse]

\* ---------------------------------------------------------------- the clock
\* time.time() advances between two runs of the event loop
Tick ==
    /\ now < MaxTime
    /\ now' = now + 1
    /\ UNCHANGED <<cb, providers, task, op, hist>>

\* ------------------------------------------- one breaker, called directly
\* The breaker's public methods called in any order on one CircuitBreaker
\* object (id 1), as a caller holding the object may do.

\* the streak ghost's None
NoStreak == NoTime

\* op.streak counts the record_failure() calls made since the breaker was
\* last left Closed with failure_count 0 with no record_success() or reset()
\* in between, up to the threshold; NoStreak past the threshold and when a
\* record_success() left the breaker otherwise.
Called(name, pre, post, ret) ==
    [ name   |-> name,
      pre    |-> pre,
      ret    |-> ret,
      at     |-> now,
      streak |-> CASE name = "record_failure" ->
                        IF op.streak = NoStreak
                           \/ op.streak >= pre.failure_threshold
                        THEN NoStreak ELSE op.streak + 1
                   [] name \in {"record_success", "reset"} ->
                        IF post.state = CLOSED /\ post.failure_count = 0
                        THEN 0 ELSE NoStreak
                   [] OTHER -> op.streak ]

InitBreaker ==
    /\ \E th \in 1..MaxThreshold, to \in 1..MaxTimeout :
          cb = [a \in {1} |-> NewBreaker(th, to)]
    /\ now = 0
    /\ providers = <<>>
    /\ task = <<>>
    /\ hist = <<>>
    /\ op = [name |-> "init", pre |-> cb[1], ret |-> TRUE, at |-> 0, streak |-> 0]

CallCanExecute ==
    LET r == can_execute(cb[1], now)
    IN  /\ cb' = [cb EXCEPT ![1] = r.cb]
        /\ op' = Called("can_execute", cb[1], r.cb, r.ret)
        /\ UNCHANGED <<now, providers, task, hist>>

CallRecordSuccess ==
    /\ cb[1].state = OPEN \/ cb[1].success_count < MaxSuccess
    /\ cb' = [cb EXCEPT ![1] = record_success(cb[1])]
    /\ op' = Called("record_success", cb[1], cb'[1], TRUE)
    /\ UNCHANGED <<now, providers, task, hist>>

CallRecordFailure ==
    /\ cb' = [cb EXCEPT ![1] = record_failure(cb[1], now)]
    /\ op' = Called("record_failure", cb[1], cb'[1], TRUE)
    /\ UNCHANGED <<now, providers, task, hist>>

CallReset ==
    /\ cb' = [cb EXCEPT ![1] = reset(cb[1])]
    /\ op' = Called("reset", cb[1], cb'[1], TRUE)
    /\ UNCHANGED <<now, providers, task, hist>>

CallGetStatus ==
    LET r == get_status(cb[1], now)
    IN  /\ cb' = [cb EXCEPT ![1] = r.cb]
        /\ op' = Called("get_status", cb[1], r.cb, r.status.can_execute)
        /\ UNCHANGED <<now, providers, task, hist>>

NextBreaker ==
    \/ CallCanExecute
    \/ CallRecordSuccess
    \/ CallRecordFailure
    \/ CallReset
    \/ CallGetStatus
    \/ Tick

SpecBreaker == InitBreaker /\ [][NextBreaker]_vars

\* A failure recorded while the clock of the model still has room for the
\* breaker's reset_timeout to elapse
CallRecordFailureInTime ==
    /\ now + cb[1].reset_timeout <= MaxTime
    /\ CallRecordFailure

\* A trial call succeeds: record_success() while HalfOpen
TrialSucceeds ==
    /\ cb[1].state = HALF_OPEN
    /\ CallRecordSuccess

\* One breaker used by senders: can_execute() before each call and the
\* outcome recorded after it
NextBreakerLive ==
    \/ CallCanExecute
    \/ CallRecordSuccess
    \/ CallRecordFailureInTime
    \/ Tick

\* Time keeps advancing, can_execute() keeps being called, and a trial call
\* that can be made again and again eventually succeeds
SpecBreakerLive ==
    /\ InitBreaker
    /\ [][NextBreakerLive]_vars
    /\ WF_vars(Tick)
    /\ WF_vars(CallCanExecute)
    /\ SF_vars(TrialSucceeds)

\* ------------------------------------------------------- SMSOrchestrator
\* A task runs one coroutine: SMSOrchestrator.send_sms or
\* send_sms_with_retry.  It is suspended at the strategy's
\* "await client.post" (pc "post"), at "await asyncio.sleep" (pc "sleep"),
\* or has returned (pc "done") or let an exception out (pc "raised").

NoError == <<"None">>

\* A task: where it is (pc), the top-level call it runs (fn, max_retries),
\* the retry loop's attempt, and of the running send_sms the list object
\* its for loop iterates (iter; live when that object is still
\* self.providers), the index of the provider in flight, last_error and
\* the response returned.
NewTask ==
    [ pc |-> "idle", fn |-> "send_sms", max_retries |-> 0, attempt |-> 0,
      iter |-> <<>>, live |-> FALSE, idx |-> 0, last_error |-> NoError,
      response |-> NoResponse ]

\* No provider call is in flight
NoSaw == [state |-> "none", last_failure_time |-> NoTime]

\* What the current top-level call has done: per send_sms walk the adapters
\* whose can_execute() the orchestrator consulted (probed) with the values
\* returned (allowed), the state and last_failure_time that call found at
\* the adapter now in flight (saw), the adapters whose send_sms was called (invoked) and
\* whether each returned a success (outcomes) and the str(e) of the latest
\* one that failed (last_failed); per top-level call the number
\* of send_sms calls (calls), whether each returned a success (results) and
\* the asyncio.sleep arguments (sleeps), the response the last send_sms call
\* returned (returned); and the record_success() / record_failure() calls of
\* the last send attempt whose await of the provider ended, with an answer
\* or with the task's cancellation (rec).
NewHist ==
    [ probed |-> <<>>, allowed |-> <<>>, saw |-> NoSaw, invoked |-> <<>>, outcomes |-> <<>>,
      last_failed |-> NoError, calls |-> 0, results |-> <<>>, sleeps |-> <<>>,
      returned |-> NoResponse,
      rec |-> [done |-> FALSE, cancelled |-> FALSE, nsucc |-> 0, nfail |-> 0] ]

\* Mutant: the orchestrator never skips an adapter.
SkipsNever(allowed) == FALSE

\* send_sms: "if not provider.can_execute(): ... continue"
Skips(allowed) == ~allowed

\* Mutant: the handler catches HTTP errors only.
OrchestratorCatchesHTTPOnly(e) == IsSubclass(e.class, "HTTPError")

\* send_sms: "except Exception as e"
OrchestratorCatches(e) == IsSubclass(e.class, "Exception")

\* Mutant: the first error of the walk is kept.
FirstError(last_error, e) == IF last_error = NoError THEN e.msg ELSE last_error

\* send_sms: "last_error = str(e)" in the except clause
NextLastError(last_error, e) == e.msg

\* send_sms: the SMSResponse returned when the loop ends
AllFailed(last_error) ==
    SMSResponse(FALSE, "", "none",
                <<"All SMS providers failed. Last error: ">> \o last_error)

\* send_sms_with_retry: the SMSResponse returned when the loop ends
RetriesFailed(max_retries) ==
    SMSResponse(FALSE, "", "none",
                <<"All retry attempts failed after ", max_retries, " retries">>)

\* Mutant: the exponent is the attempt number.
wait_time_late(attempt) == 2 ^ attempt

\* send_sms_with_retry: wait_time = 2 ** (attempt - 1)
wait_time(attempt) == 2 ^ (attempt - 1)

\* Mutant: the loop runs max_retries times.
HasNextAttemptShort(attempt, max_retries) == attempt + 1 < max_retries

\* send_sms_with_retry: "for attempt in range(max_retries + 1)" has another
\* iteration after the one numbered attempt
HasNextAttempt(attempt, max_retries) == attempt + 1 < max_retries + 1

\* The for loop of send_sms over the list ps from the provider at index i
\* on, at clock t, up to the next suspension: each provider's can_execute() is consulted, a
\* denied one is skipped, an allowed one has its send_sms called, which
\* itself calls can_execute() and raises if denied (caught by the loop,
\* which goes on) or suspends in client.post.  pc "post" with the index of
\* the provider in flight, or pc "exhausted" when the loop ends.
RECURSIVE Walk(_, _, _, _, _, _)
Walk(cbs, ps, i, t, last_error, h) ==
    IF i > Len(ps) THEN
        [pc |-> "exhausted", cbs |-> cbs, idx |-> 0,
         last_error |-> last_error, h |-> h]
    ELSE
        LET a    == ps[i]
            ce   == can_execute(cbs[a], t)
            cbs1 == [cbs EXCEPT ![a] = ce.cb]
            h1   == [h EXCEPT !.probed = Append(@, a),
                              !.allowed = Append(@, ce.ret)]
        IN  IF Skips(ce.ret) THEN Walk(cbs1, ps, i + 1, t, last_error, h1)
            ELSE
                LET guard == can_execute(cbs1[a], t)
                    cbs2  == [cbs1 EXCEPT ![a] = guard.cb]
                    h2    == [h1 EXCEPT !.invoked = Append(@, a),
                                        !.saw = [state |-> cbs[a].state,
                                                 last_failure_time |->
                                                     cbs[a].last_failure_time]]
                    e     == Exc("Exception", <<Kind(a), "circuit breaker is open">>)
                IN  IF ~guard.ret THEN
                        IF OrchestratorCatches(e)
                        THEN Walk(cbs2, ps, i + 1, t, NextLastError(last_error, e),
                                  [h2 EXCEPT !.outcomes = Append(@, FALSE),
                                             !.saw = NoSaw,
                                             !.last_failed = e.msg])
                        ELSE [pc |-> "raised", cbs |-> cbs2, idx |-> i,
                              last_error |-> last_error, h |-> h2]
                    ELSE [pc |-> "post", cbs |-> cbs2, idx |-> i,
                          last_error |-> last_error, h |-> h2]

\* send_sms has returned response to its caller: the task and its history
\* after the caller's next steps.  main.send_sms returns it;
\* send_sms_with_retry returns a success, sleeps before the next attempt,
\* or returns its own failure after the last one.
AfterSendSms(tk, h, response) ==
    LET h1 == [h EXCEPT !.results = Append(@, response.success),
                        !.returned = response]
    IN  IF tk.fn = "send_sms" \/ response.success THEN
            [task |-> [tk EXCEPT !.pc = "done", !.response = response, !.idx = 0,
                                 !.iter = <<>>, !.live = FALSE],
             h |-> h1]
        ELSE IF HasNextAttempt(tk.attempt, tk.max_retries) THEN
            [task |-> [tk EXCEPT !.pc = "sleep", !.attempt = @ + 1, !.idx = 0,
                                 !.iter = <<>>, !.live = FALSE,
                                 !.last_error = NoError],
             h |-> [h1 EXCEPT !.sleeps = Append(@, wait_time(tk.attempt + 1))]]
        ELSE
            [task |-> [tk EXCEPT !.pc = "done", !.idx = 0,
                                 !.iter = <<>>, !.live = FALSE,
                                 !.response = RetriesFailed(tk.max_retries)],
             h |-> h1]

\* The task and its history once a run of the for loop has stopped
AfterWalk(tk, w) ==
    IF w.pc = "post" THEN
        [task |-> [tk EXCEPT !.pc = "post", !.idx = w.idx,
                             !.last_error = w.last_error],
         h |-> w.h]
    ELSE IF w.pc = "raised" THEN
        [task |-> [tk EXCEPT !.pc = "raised", !.idx = 0, !.iter = <<>>,
                             !.live = FALSE],
         h |-> w.h]
    ELSE AfterSendSms(tk, w.h, AllFailed(w.last_error))

\* A call of send_sms begins: last_error = None and the loop starts at the
\* first provider of the list that self.providers is bound to
BeginSendSms(t, tk, h) ==
    LET h0 == [h EXCEPT !.probed = <<>>, !.allowed = <<>>, !.invoked = <<>>,
                        !.outcomes = <<>>, !.last_failed = NoError, !.calls = @ + 1]
        w  == Walk(cb, providers, 1, now, NoError, h0)
        r  == AfterWalk([tk EXCEPT !.iter = providers, !.live = TRUE], w)
    IN  /\ cb' = w.cbs
        /\ task' = [task EXCEPT ![t] = r.task]
        /\ hist' = [hist EXCEPT ![t] = r.h]

\* A request handler calls send_sms (main.py) or a caller calls
\* send_sms_with_retry(request, max_retries)
Call(t, fn, max_retries) ==
    /\ task[t].pc \in {"idle", "done"}
    /\ BeginSendSms(t, [NewTask EXCEPT !.fn = fn, !.max_retries = max_retries],
                    NewHist)
    /\ UNCHANGED <<now, providers, op>>

\* client.post comes back with resp for the provider in flight: the
\* strategy records the outcome and returns or raises, and send_sms
\* returns the success or goes on with the next provider
PostReturns(t, resp) ==
    /\ task[t].pc = "post"
    /\ LET a  == task[t].iter[task[t].idx]
           c  == StrategyComplete(Kind(a), cb[a], now, resp)
           h1 == [hist[t] EXCEPT
                     !.saw = NoSaw,
                     !.rec = [done |-> TRUE, cancelled |-> resp = "cancelled",
                              nsucc |-> c.nsucc, nfail |-> c.nfail],
                     !.outcomes = Append(@, c.exc = NoExc /\ c.response.success)]
           cbs == [cb EXCEPT ![a] = c.cb]
           failed == IF c.exc = NoExc
                     THEN Exc("Exception", <<Kind(a), "returned success=False">>)
                     ELSE c.exc
       IN  /\ resp \in {"success", "success_no_id", "success_null_id"} =>
                 (cb[a].state = OPEN \/ cb[a].success_count < MaxSuccess)
           /\ IF c.exc = NoExc /\ c.response.success THEN
                 LET r == AfterSendSms(task[t], h1, c.response)
                 IN  /\ cb' = cbs
                     /\ task' = [task EXCEPT ![t] = r.task]
                     /\ hist' = [hist EXCEPT ![t] = r.h]
              ELSE IF OrchestratorCatches(failed) THEN
                 LET w == Walk(cbs, task[t].iter, task[t].idx + 1, now,
                               NextLastError(task[t].last_error, failed),
                               [h1 EXCEPT !.last_failed = failed.msg])
                     r == AfterWalk(task[t], w)
                 IN  /\ cb' = w.cbs
                     /\ task' = [task EXCEPT ![t] = r.task]
                     /\ hist' = [hist EXCEPT ![t] = r.h]
              ELSE
                 /\ cb' = cbs
                 /\ task' = [task EXCEPT ![t].pc = "raised", ![t].idx = 0,
                                          ![t].iter = <<>>, ![t].live = FALSE]
                 /\ hist' = [hist EXCEPT ![t] = h1]
    /\ UNCHANGED <<now, providers, op>>

\* asyncio.sleep(wait_time) is over: the next send_sms call begins
Wake(t) ==
    /\ task[t].pc = "sleep"
    /\ BeginSendSms(t, task[t], hist[t])
    /\ UNCHANGED <<now, providers, op>>

\* Settings.failure_threshold
settings_failure_threshold == 2

\* Settings.reset_timeout, 30 seconds: the clock counts in units of 30 s
settings_reset_timeout == 1

\* SMSOrchestrator(providers) with n strategies, each with a new breaker
\* built from its config's failure_threshold and reset_timeout
InitOrchestrator(n, tasks, thresholds, timeouts) ==
    /\ \E th \in thresholds, to \in timeouts :
          cb = [a \in 1..n |-> NewBreaker(th, to)]
    /\ providers = [i \in 1..n |-> i]
    /\ now = 0
    /\ task = [t \in tasks |-> NewTask]
    /\ hist = [t \in tasks |-> NewHist]
    /\ op = [name |-> "init", pre |-> NewBreaker(1, 1), ret |-> TRUE,
             at |-> 0, streak |-> 0]

\* Request handlers calling send_sms on one orchestrator
Init == \E n \in 0..MaxProviders : InitOrchestrator(n, {1}, {settings_failure_threshold},
                         {settings_reset_timeout})

Next ==
    \/ \E t \in DOMAIN task : Call(t, "send_sms", 0)
    \/ \E t \in DOMAIN task, resp \in Responses : PostReturns(t, resp)
    \/ Tick

Spec == Init /\ [][Next]_vars

\* Callers of send_sms_with_retry on one orchestrator
InitRetry == \E n \in 0..MaxRetryProviders : InitOrchestrator(n, {1}, {settings_failure_threshold},
                         {settings_reset_timeout})

NextRetry ==
    \/ \E t \in DOMAIN task, m \in 0..MaxRetries :
          Call(t, "send_sms_with_retry", m)
    \/ \E t \in DOMAIN task, resp \in Responses : PostReturns(t, resp)
    \/ \E t \in DOMAIN task : Wake(t)
    \/ Tick

SpecRetry == InitRetry /\ [][NextRetry]_vars

\* NumSenders request handlers, each calling send_sms once on an
\* orchestrator with one adapter whose provider fails every request
InitConcurrent ==
    InitOrchestrator(1, 1..NumSenders, 1..MaxThreshold, {settings_reset_timeout})

NextConcurrent ==
    \/ \E t \in DOMAIN task : task[t].pc = "idle" /\ Call(t, "send_sms", 0)
    \/ \E t \in DOMAIN task, resp \in FailingResponses : PostReturns(t, resp)
    \/ Tick

SpecConcurrent == InitConcurrent /\ [][NextConcurrent]_vars

\* task.cancel() while the task waits in client.post: CancelledError is
\* raised at the await inside the strategy's try block and passes whatever
\* handler does not catch it
Cancel(t) == PostReturns(t, "cancelled")

\* A request handler calling send_sms whose task can be cancelled (the
\* client disconnects, the server shuts down)
InitCancel ==
    \E n \in 1..MaxRetryProviders :
        InitOrchestrator(n, {1}, {settings_failure_threshold},
                         {settings_reset_timeout})

NextCancel ==
    \/ \E t \in DOMAIN task : Call(t, "send_sms", 0)
    \/ \E t \in DOMAIN task, resp \in Responses : PostReturns(t, resp)
    \/ \E t \in DOMAIN task : Cancel(t)
    \/ Tick

SpecCancel == InitCancel /\ [][NextCancel]_vars

\* ------------------------------------------- managing the provider list

\* The strategy objects ever created in one run
MaxAdapters == 3

\* The adapters of a provider list
Range(ps) == {ps[i] : i \in DOMAIN ps}

\* Mutant: only the breakers that are Open are reset.
reset_all_open_only(cbs, ps) ==
    [a \in DOMAIN cbs |->
        IF a \in Range(ps) /\ cbs[a].state = OPEN THEN reset(cbs[a]) ELSE cbs[a]]

\* reset_all_circuit_breakers: "for provider in self.providers:
\* provider.circuit_breaker.reset()"
reset_all_circuit_breakers(cbs, ps) ==
    [a \in DOMAIN cbs |-> IF a \in Range(ps) THEN reset(cbs[a]) ELSE cbs[a]]

\* add_provider: "self.providers.append(provider)"
add_provider(ps, a) == Append(ps, a)

\* Mutant: only the first adapter with that name is removed.
remove_first(ps, name) ==
    LET at == {i \in DOMAIN ps : Kind(ps[i]) = name}
    IN  IF at = {} THEN ps
        ELSE LET k == CHOOSE i \in at : \A j \in at : i <= j
             IN  SubSeq(ps, 1, k - 1) \o SubSeq(ps, k + 1, Len(ps))

\* remove_provider: "[p for p in self.providers if p.get_provider_name() !=
\* provider_name]"
remove_provider(ps, name) == SelectSeq(ps, LAMBDA p : Kind(p) # name)

\* The latest call of a managing method of the orchestrator: its name and
\* what it found (pre)
Managed(name, pre) == op' = [name |-> name, pre |-> pre]

\* POST /circuit-breaker/reset: reset_all_circuit_breakers() has no await,
\* it runs in one piece
ResetAll ==
    /\ cb' = reset_all_circuit_breakers(cb, providers)
    /\ Managed("reset_all_circuit_breakers",
               {cb[a].state : a \in Range(providers)})
    /\ UNCHANGED <<now, providers, task, hist>>

\* add_provider(provider) with a new strategy object a, whose breaker is
\* built from the settings: the list object is extended in place, so a for
\* loop that iterates it sees the new element
AddProvider(a) ==
    /\ a = Cardinality(DOMAIN cb) + 1
    /\ a <= MaxAdapters
    /\ providers' = add_provider(providers, a)
    /\ cb' = [x \in DOMAIN cb \cup {a} |->
                 IF x = a
                 THEN NewBreaker(settings_failure_threshold, settings_reset_timeout)
                 ELSE cb[x]]
    /\ task' = [t \in DOMAIN task |->
                   IF task[t].live
                   THEN [task[t] EXCEPT !.iter = add_provider(@, a)]
                   ELSE task[t]]
    /\ Managed("add_provider", Len(providers))
    /\ UNCHANGED <<now, hist>>

\* Mutant: the adapters are removed from the list object in place.
iterated_in_place(it, name) == remove_provider(it, name)

\* remove_provider: "self.providers = [...]" builds a new list; the list
\* object it, which a running for loop iterates, is not changed
iterated_after_remove(it, name) == it

\* remove_provider(provider_name): self.providers is bound to a new list,
\* a for loop that is running keeps the list object it started with
RemoveProvider(name) ==
    /\ providers' = remove_provider(providers, name)
    /\ task' = [t \in DOMAIN task |->
                   [task[t] EXCEPT !.live = FALSE,
                                   !.iter = iterated_after_remove(@, name)]]
    /\ Managed("remove_provider", Len(providers))
    /\ UNCHANGED <<now, cb, hist>>

\* What the providers answer while the orchestrator is managed
AdminResponses == {"success", "api_error"}

\* An orchestrator with MaxAdapters providers, a request handler calling
\* send_sms, and callers of POST /circuit-breaker/reset
InitReset ==
    InitOrchestrator(MaxAdapters, {1}, {settings_failure_threshold},
                     {settings_reset_timeout})

NextReset ==
    \/ \E t \in DOMAIN task : Call(t, "send_sms", 0)
    \/ \E t \in DOMAIN task, resp \in AdminResponses : PostReturns(t, resp)
    \/ Tick
    \/ ResetAll

SpecReset == InitReset /\ [][NextReset]_vars

\* SMSProviderFactory._providers: arkesel, mnotify
NumFactoryProviders == 2

\* SMSOrchestrator() with the factory's providers, a request handler
\* calling send_sms, and callers of add_provider and remove_provider
InitRegistry ==
    InitOrchestrator(NumFactoryProviders, {1}, {settings_failure_threshold},
                     {settings_reset_timeout})

NextRegistry ==
    \/ \E t \in DOMAIN task : Call(t, "send_sms", 0)
    \/ \E t \in DOMAIN task, resp \in AdminResponses : PostReturns(t, resp)
    \/ \E a \in 1..MaxAdapters : AddProvider(a)
    \/ \E name \in {Kind(1), Kind(2)} : RemoveProvider(name)

SpecRegistry == InitRegistry /\ [][NextRegistry]_vars

\* --------------------------------------------------- claims on one breaker

\* C3: from Closed with failure_count 0, k consecutive record_failure()
\* calls leave the breaker Closed (with failure_count k) for every
\* k < failure_threshold, and the failure_threshold-th call leaves it Open.
C3_OpensExactlyAtThreshold ==
    op.streak # NoStreak =>
        /\ op.streak < cb[1].failure_threshold =>
              cb[1].state = CLOSED /\ cb[1].failure_count = op.streak
        /\ (op.streak = cb[1].failure_threshold /\ op.name = "record_failure") =>
              cb[1].state = OPEN

\* The threshold-th failure of a streak, with a threshold above 1, has just
\* been recorded.
C3_Witness ==
    /\ op.name = "record_failure"
    /\ cb[1].failure_threshold >= 2
    /\ op.streak = cb[1].failure_threshold
    /\ op.pre.state = CLOSED
    /\ cb[1].state = OPEN

\* C4: a can_execute() call on an Open breaker returns false and leaves it
\* Open while now - last_failure_time < reset_timeout, and returns true
\* and leaves it HalfOpen once now - last_failure_time >= reset_timeout.
C4_OpenDeniesUntilTimeout ==
    (op.name = "can_execute" /\ op.pre.state = OPEN) =>
        IF op.at - op.pre.last_failure_time < op.pre.reset_timeout
        THEN op.ret = FALSE /\ cb[1] = op.pre
        ELSE op.ret = TRUE /\ cb[1].state = HALF_OPEN

\* can_execute() was called on an Open breaker exactly reset_timeout after
\* the failure and moved it to HalfOpen.
C4_Witness ==
    /\ op.name = "can_execute"
    /\ op.pre.state = OPEN
    /\ op.at - op.pre.last_failure_time = op.pre.reset_timeout
    /\ op.ret = TRUE
    /\ cb[1].state = HALF_OPEN

\* C5: in HalfOpen, record_success() leaves the breaker Closed with
\* failure_count 0 and last_failure_time unset, and record_failure() leaves
\* it Open with last_failure_time the time of the call and success_count 0.
C5_HalfOpenDecides ==
    /\ (op.name = "record_success" /\ op.pre.state = HALF_OPEN) =>
          /\ cb[1].state = CLOSED
          /\ cb[1].failure_count = 0
          /\ cb[1].last_failure_time = NoTime
    /\ (op.name = "record_failure" /\ op.pre.state = HALF_OPEN) =>
          /\ cb[1].state = OPEN
          /\ cb[1].last_failure_time = op.at
          /\ cb[1].success_count = 0

\* A failure was recorded in HalfOpen later than the failure that opened
\* the breaker.
C5_Witness ==
    /\ op.name = "record_failure"
    /\ op.pre.state = HALF_OPEN
    /\ op.at > op.pre.last_failure_time
    /\ cb[1].state = OPEN

\* C6: reset() applied to any reachable breaker yields Closed,
\* failure_count 0 and last_failure_time unset, and reset() applied again
\* changes nothing; the breaker a reset() call has just left is that one.
C6_ResetIdempotent ==
    LET r == reset(cb[1])
    IN  /\ r.state = CLOSED
        /\ r.failure_count = 0
        /\ r.last_failure_time = NoTime
        /\ reset(r) = r
        /\ op.name = "reset" => cb[1] = reset(op.pre) /\ reset(cb[1]) = cb[1]

\* reset() was called on an Open breaker.
C6_Witness ==
    /\ op.name = "reset"
    /\ op.pre.state = OPEN
    /\ op.pre.failure_count > 0
    /\ cb[1].state = CLOSED

\* C16: in every reachable state of a breaker, Open implies that
\* last_failure_time is set.
C16_OpenHasFailureTime ==
    cb[1].state = OPEN => cb[1].last_failure_time # NoTime

\* A failure has just opened the breaker.
C16_Witness ==
    /\ op.name = "record_failure"
    /\ op.pre.state = CLOSED
    /\ cb[1].state = OPEN
    /\ cb[1].last_failure_time = op.at

\* C17: in every reachable state of a breaker, Closed implies that
\* last_failure_time is unset.
C17_ClosedHasNoFailureTime ==
    cb[1].state = CLOSED => cb[1].last_failure_time = NoTime

\* A failure below the threshold has just been recorded while Closed.
C17_Witness ==
    /\ op.name = "record_failure"
    /\ op.pre.state = CLOSED
    /\ cb[1].state = CLOSED
    /\ cb[1].failure_count >= 1
    /\ cb[1].last_failure_time = NoTime

C19_ConsecutiveFailuresOnly ==
    /\ cb[1].state = CLOSED =>
          /\ op.streak # NoStreak
          /\ cb[1].failure_count = op.streak
          /\ cb[1].failure_count < cb[1].failure_threshold
    /\ (op.name \in {"record_success", "reset"} /\ cb[1].state = CLOSED) =>
          cb[1].failure_count = 0
    /\ (op.name = "record_failure" /\ op.pre.state = CLOSED
        /\ cb[1].state = OPEN) =>
          op.streak = cb[1].failure_threshold

\* A success recorded while Closed has cleared a failure_count above 0.
C19_Witness ==
    /\ op.name = "record_success"
    /\ op.pre.state = CLOSED
    /\ op.pre.failure_count > 0
    /\ cb[1].state = CLOSED
    /\ cb[1].failure_count = 0

\* C20: record_success() and record_failure() called while the breaker is
\* Open change nothing of it.
C20_OpenIgnoresOutcomes ==
    (op.name \in {"record_success", "record_failure"} /\ op.pre.state = OPEN) =>
        cb[1] = op.pre

\* A failure was recorded while Open, later than the failure that opened
\* the breaker.
C20_Witness ==
    /\ op.name = "record_failure"
    /\ op.pre.state = OPEN
    /\ op.at > op.pre.last_failure_time
    /\ cb[1].state = OPEN

\* ------------------------------------------------ claims on the orchestrator
Last(q) == q[Len(q)]

\* The adapters of probed whose can_execute() returned true
AllowedOf(h) ==
    SelectSeq(h.probed,
              LAMBDA a : \E k \in 1..Len(h.probed) : h.probed[k] = a /\ h.allowed[k])

\* C1: a send_sms walk consults the adapters in registry order, each at
\* most once; it calls send on exactly the consulted adapters whose
\* can_execute() returned true; only the last send called can have
\* succeeded, and when it has, send_sms has returned that adapter's result
\* and no adapter after it was consulted or invoked.
C1_FirstSuccessWins ==
    \A t \in DOMAIN task :
        LET h == hist[t]
            tk == task[t]
        IN  /\ Len(h.probed) <= Len(providers)
            /\ h.probed = SubSeq(providers, 1, Len(h.probed))
            /\ Len(h.allowed) = Len(h.probed)
            /\ h.invoked = AllowedOf(h)
            /\ Len(h.outcomes) \in {Len(h.invoked), Len(h.invoked) - 1}
            /\ \A k \in 1..(Len(h.outcomes) - 1) : ~h.outcomes[k]
            /\ (h.outcomes # <<>> /\ Last(h.outcomes)) =>
                  /\ tk.pc = "done"
                  /\ Len(h.outcomes) = Len(h.invoked)
                  /\ Last(h.probed) = Last(h.invoked)
                  /\ tk.response.success
                  /\ tk.response.provider = Kind(Last(h.invoked))
            /\ (tk.pc = "done" /\ tk.response.success) =>
                  h.outcomes # <<>> /\ Last(h.outcomes)
            /\ (tk.pc = "done" /\ ~tk.response.success) =>
                  h.probed = providers

\* Adapter 1 is Open and skipped, adapter 2 is invoked and fails, adapter 3
\* is invoked and succeeds, and send_sms has returned adapter 3's result.
C1_Witness ==
    /\ Len(providers) = 3
    /\ cb[1].state = OPEN
    /\ task[1].pc = "done"
    /\ hist[1].probed = <<1, 2, 3>>
    /\ hist[1].allowed = <<FALSE, TRUE, TRUE>>
    /\ hist[1].invoked = <<2, 3>>
    /\ hist[1].outcomes = <<FALSE, TRUE>>
    /\ task[1].response = SMSResponse(TRUE, "id", Kind(3), <<>>)

\* C2: send_sms never lets an exception out, and what it returns is either
\* the success result of the adapter invoked last or the failure result
\* with success false, provider "none", an empty message_id and an error.
C2_StructuredResult ==
    \A t \in DOMAIN task :
        /\ task[t].pc # "raised"
        /\ task[t].pc = "done" =>
              LET r == task[t].response
              IN  IF r.success
                  THEN /\ hist[t].invoked # <<>>
                       /\ r.provider = Kind(Last(hist[t].invoked))
                       /\ r.error = <<>>
                  ELSE /\ r.provider = "none"
                       /\ r.message_id = ""
                       /\ r.error # <<>>

\* Every one of three adapters was skipped and send_sms returned the
\* failure result.
C2_Witness ==
    /\ Len(providers) = 3
    /\ task[1].pc = "done"
    /\ hist[1].probed = providers
    /\ hist[1].invoked = <<>>
    /\ task[1].response.provider = "none"
    /\ ~task[1].response.success

\* C9: a send attempt that came back from the provider has made exactly one
\* record_success() or record_failure() call on its breaker.
C9_ExactlyOneOutcome ==
    \A t \in DOMAIN task :
        hist[t].rec.done => hist[t].rec.nsucc + hist[t].rec.nfail = 1

\* ------------------------------------------- claims on send_sms_with_retry

\* C7: send_sms_with_retry makes at most max_retries + 1 send_sms calls,
\* each starting at the first adapter; only the last call can have
\* succeeded, and then its result is returned as it is; a failure is
\* returned after exactly max_retries + 1 calls, with provider "none".
C7_RetryUntilSuccess ==
    \A t \in DOMAIN task :
        LET h == hist[t]
            tk == task[t]
        IN  tk.fn = "send_sms_with_retry" =>
            /\ h.calls <= tk.max_retries + 1
            /\ h.calls = IF tk.pc = "sleep" THEN tk.attempt ELSE tk.attempt + 1
            /\ Len(h.results) = IF tk.pc = "post" THEN h.calls - 1 ELSE h.calls
            /\ \A k \in 1..(Len(h.results) - 1) : ~h.results[k]
            /\ (providers # <<>> /\ tk.pc = "post") =>
                  h.probed # <<>> /\ h.probed[1] = providers[1]
            /\ tk.pc = "sleep" => ~Last(h.results)
            /\ tk.pc = "done" =>
                  IF Last(h.results)
                  THEN tk.response = h.returned /\ tk.response.success
                  ELSE /\ h.calls = tk.max_retries + 1
                       /\ ~tk.response.success
                       /\ tk.response.provider = "none"

\* With max_retries = 2 every one of three send_sms calls failed after
\* walking both adapters, and the failure was returned.
C7_Witness ==
    /\ task[1].fn = "send_sms_with_retry"
    /\ task[1].max_retries = 2
    /\ task[1].pc = "done"
    /\ hist[1].results = <<FALSE, FALSE, FALSE>>
    /\ hist[1].calls = 3
    /\ hist[1].probed = <<1, 2>>
    /\ task[1].response.provider = "none"

\* C8: nothing is slept before the first send_sms call, the sleep before
\* the k-th retry is 2^(k-1) seconds, and no sleep follows the last call.
C8_Backoff ==
    \A t \in DOMAIN task :
        LET h == hist[t]
            tk == task[t]
        IN  tk.fn = "send_sms_with_retry" =>
            /\ \A k \in 1..Len(h.sleeps) : h.sleeps[k] = 2 ^ (k - 1)
            /\ Len(h.sleeps) = IF tk.pc = "sleep" THEN h.calls ELSE h.calls - 1
            /\ (tk.pc = "done" /\ ~tk.response.success) =>
                  Len(h.sleeps) = tk.max_retries

\* With max_retries = 2 and every attempt failing, the task slept 1 s then
\* 2 s between its three attempts and has returned.
C8_Witness ==
    /\ task[1].fn = "send_sms_with_retry"
    /\ task[1].max_retries = 2
    /\ task[1].pc = "done"
    /\ ~task[1].response.success
    /\ hist[1].sleeps = <<1, 2>>
    /\ hist[1].calls = 3
    /\ hist[1].invoked # <<>>

\* ------------------------------------------------- claims on concurrency

\* The sends whose provider call has come back
Completed == {t \in DOMAIN task : hist[t].rec.done}

\* C10: with NumSenders >= failure_threshold concurrent failing sends on one
\* breaker that starts Closed, failure_count never exceeds the threshold,
\* while the breaker is Closed it equals the number of failures that have
\* come back, and when every send has returned the breaker is Open with
\* failure_count equal to the threshold.
C10_ConcurrentFailures ==
    /\ cb[1].failure_count <= cb[1].failure_threshold
    /\ cb[1].state = CLOSED => cb[1].failure_count = Cardinality(Completed)
    /\ \A t \in Completed : hist[t].rec.nsucc = 0 /\ hist[t].rec.nfail = 1
    /\ (\A t \in DOMAIN task : task[t].pc = "done") =>
          /\ cb[1].state = OPEN
          /\ cb[1].failure_count = cb[1].failure_threshold

\* Every send was in flight together, more of them than the threshold, and
\* all have failed and returned.
C10_Witness ==
    /\ \A t \in DOMAIN task : task[t].pc = "done" /\ hist[t].rec.done
    /\ Cardinality(DOMAIN task) > cb[1].failure_threshold
    /\ cb[1].failure_threshold >= 2
    /\ cb[1].state = OPEN

\* C13: when send_sms has exhausted the adapters, the error of its failure
\* result is "All SMS providers failed. Last error: " followed by the error
\* of the latest adapter of that walk that was attempted and failed (None
\* when none was attempted); a skipped adapter does not replace it.
C13_LastErrorNamed ==
    \A t \in DOMAIN task :
        (task[t].pc = "done" /\ task[t].fn = "send_sms"
         /\ ~task[t].response.success) =>
            /\ task[t].response.error =
                  <<"All SMS providers failed. Last error: ">>
                      \o hist[t].last_failed
            /\ (hist[t].invoked = <<>>) <=> (hist[t].last_failed = NoError)

\* Adapters 1 and 2 were attempted and failed, adapter 3 was skipped after
\* them, and the error names adapter 2's failure.
C13_Witness ==
    \E t \in DOMAIN task :
        /\ task[t].pc = "done" /\ ~task[t].response.success
        /\ hist[t].probed = <<1, 2, 3>>
        /\ hist[t].allowed = <<TRUE, TRUE, FALSE>>
        /\ hist[t].invoked = <<1, 2>>
        /\ Kind(1) # Kind(2)
        /\ task[t].response.error[2] = Kind(2)

\* The tasks whose provider call is in flight
InFlight == {t \in DOMAIN task : task[t].pc = "post"}

\* C11: of the concurrent tasks whose can_execute() call on one breaker
\* allowed them, at most one found the breaker Open in any one Open period
\* (it performed the transition to HalfOpen, the reset timeout having
\* elapsed); every other one found it Closed or HalfOpen and was allowed
\* without a transition.
C11_TransitionOncePerOpenPeriod ==
    \A t \in InFlight :
        /\ hist[t].saw.state \in {CLOSED, OPEN, HALF_OPEN}
        /\ hist[t].saw.state = OPEN =>
              /\ now - hist[t].saw.last_failure_time >=
                     cb[task[t].iter[task[t].idx]].reset_timeout
              /\ \A u \in InFlight \ {t} :
                    task[u].iter[task[u].idx] = task[t].iter[task[t].idx] =>
                        hist[u].saw # hist[t].saw

\* Two sends are in flight in one Open period: one task found the breaker
\* Open and moved it to HalfOpen, the other found it HalfOpen.
C11_Witness ==
    \E t, u \in InFlight :
        /\ hist[t].saw.state = OPEN
        /\ hist[u].saw.state = HALF_OPEN
        /\ hist[u].saw.last_failure_time = hist[t].saw.last_failure_time
        /\ cb[1].state = HALF_OPEN
        /\ cb[1].last_failure_time = hist[t].saw.last_failure_time

\* A breaker as reset() leaves it
IsReset(b) ==
    b.state = CLOSED /\ b.failure_count = 0 /\ b.last_failure_time = NoTime

\* C12: every step that is a call of reset_all_circuit_breakers() ends
\* with the breaker of every adapter of the orchestrator Closed, with
\* failure_count 0 and last_failure_time unset, and changes neither the
\* provider list nor a limit of a breaker.
C12_ResetAllCloses ==
    [][ResetAll =>
          /\ providers' = providers
          /\ \A i \in DOMAIN providers :
                /\ IsReset(cb'[providers[i]])
                /\ cb'[providers[i]].failure_threshold =
                       cb[providers[i]].failure_threshold
                /\ cb'[providers[i]].reset_timeout =
                       cb[providers[i]].reset_timeout]_vars

\* reset_all_circuit_breakers() has just run on breakers of which one was
\* Closed, one Open and one HalfOpen.
C12_Witness ==
    /\ op.name = "reset_all_circuit_breakers"
    /\ op.pre = {CLOSED, OPEN, HALF_OPEN}
    /\ \A i \in DOMAIN providers : IsReset(cb[providers[i]])

\* The position of adapter a in the list ps
Pos(ps, a) == CHOOSE i \in DOMAIN ps : ps[i] = a

\* C15: every step that is a call of add_provider(a) leaves the list as it
\* was with a after its last element, and every breaker as it was; every
\* step that is a call of remove_provider(name) leaves exactly the adapters
\* of another name in the list, in the order they had, and every breaker
\* as it was.
C15_AddLastRemoveAll ==
    [][/\ \A a \in 1..MaxAdapters : AddProvider(a) =>
             /\ Len(providers') = Len(providers) + 1
             /\ SubSeq(providers', 1, Len(providers)) = providers
             /\ providers'[Len(providers')] = a
             /\ \A x \in DOMAIN cb : cb'[x] = cb[x]
       /\ \A name \in {Kind(1), Kind(2)} : RemoveProvider(name) =>
             /\ Range(providers') =
                    {x \in Range(providers) : Kind(x) # name}
             /\ Len(providers') = Cardinality(Range(providers'))
             /\ \A x, y \in Range(providers') :
                    Pos(providers', x) < Pos(providers', y) <=>
                        Pos(providers, x) < Pos(providers, y)
             /\ cb' = cb]_vars

\* remove_provider has just taken two adapters of one name out of a list
\* of three, the third of which add_provider had placed last; the adapter
\* that stays has a breaker that is Open.
C15_Witness ==
    /\ op.name = "remove_provider"
    /\ op.pre = 3
    /\ providers = <<2>>
    /\ DOMAIN cb = {1, 2, 3}
    /\ Kind(1) = Kind(3)
    /\ cb[2].state = OPEN

\* C14 as claimed: an attempt whose task was cancelled while the provider
\* call was in flight has recorded nothing on the breaker, and an attempt
\* that completed has recorded exactly one outcome.
C14_CancelledNoneCompletedOnce ==
    \A t \in DOMAIN task :
        hist[t].rec.done =>
            hist[t].rec.nsucc + hist[t].rec.nfail =
                IF hist[t].rec.cancelled THEN 0 ELSE 1

\* The positions of hist'[t].probed that the step has added: all of them
\* when the step begins a send_sms call, those after the ones already
\* there when it resumes one
NewlyProbed(t) ==
    IF task[t].pc = "post"
    THEN (Len(hist[t].probed) + 1)..Len(hist'[t].probed)
    ELSE 1..Len(hist'[t].probed)

\* C21: in every step of a send_sms walk, an adapter whose can_execute()
\* returned false in that step has its breaker exactly as it was before
\* the step, and its send_sms is not called in that walk.
C21_SkipLeavesBreaker ==
    [][\A t \in DOMAIN task :
          hist'[t] # hist[t] =>
              \A i \in NewlyProbed(t) :
                  ~hist'[t].allowed[i] =>
                      /\ cb'[hist'[t].probed[i]] = cb[hist'[t].probed[i]]
                      /\ \A j \in DOMAIN hist'[t].invoked :
                            hist'[t].invoked[j] # hist'[t].probed[i]]_vars

\* A walk has skipped adapter 1, whose breaker is Open with its
\* failure_count at the threshold, and has called adapter 2 after it.
C21_Witness ==
    \E t \in DOMAIN task :
        /\ Len(hist[t].probed) >= 2
        /\ hist[t].probed[1] = 1 /\ ~hist[t].allowed[1]
        /\ hist[t].allowed[2]
        /\ hist[t].invoked = <<hist[t].probed[2]>>
        /\ cb[1].state = OPEN
        /\ cb[1].failure_count = cb[1].failure_threshold

\* C22: in every step, a send_sms call lets no exception out; a walk that
\* is suspended on a provider call has considered exactly the adapters of
\* the list it iterates up to the one in flight, in order, each once; that
\* list is self.providers while no remove_provider call has replaced it,
\* and afterwards lacks only adapters created later; and a walk that ends
\* without a success has considered the whole list it iterates.
C22_WalkSurvivesMutation ==
    [][\A t \in DOMAIN task :
          /\ task'[t].pc # "raised"
          /\ task'[t].pc = "post" =>
                /\ task'[t].idx = Len(hist'[t].probed)
                /\ task'[t].idx <= Len(task'[t].iter)
                /\ \A i \in 1..task'[t].idx :
                      hist'[t].probed[i] = task'[t].iter[i]
                /\ Cardinality(Range(task'[t].iter)) = Len(task'[t].iter)
                /\ task'[t].live => task'[t].iter = providers'
                /\ \A a \in Range(providers') \ Range(task'[t].iter) :
                      \A b \in Range(task'[t].iter) : a > b
          /\ (task[t].pc = "post" /\ task'[t].pc = "done") =>
                hist'[t].probed =
                    IF task'[t].response.success THEN hist[t].probed
                    ELSE task[t].iter]_vars

\* A walk that began on the list <<1, 2, 3>> is suspended on the call of
\* adapter 3 after remove_provider has taken adapters 1 and 3 out of
\* self.providers.
C22_Witness ==
    \E t \in DOMAIN task :
        /\ task[t].pc = "post" /\ ~task[t].live
        /\ task[t].iter = <<1, 2, 3>> /\ task[t].idx = 3
        /\ hist[t].probed = <<1, 2, 3>>
        /\ providers = <<2>>
        /\ op.name = "remove_provider"

\* C23 as claimed: the snapshot get_status() returns has can_execute true
\* exactly when its state field is CLOSED or HALF_OPEN (the state field is
\* the state the call found, op.pre.state; op.ret is the can_execute
\* field).
C23_SnapshotConsistent ==
    op.name = "get_status" =>
        (op.ret <=> op.pre.state \in {CLOSED, HALF_OPEN})

\* C25: in every reachable state of a breaker with threshold T >= 1,
\* 0 <= failure_count <= T, Closed implies failure_count < T, and Open or
\* HalfOpen implies failure_count = T.
C25_CounterMatchesState ==
    /\ cb[1].failure_threshold >= 1
    /\ 0 <= cb[1].failure_count
    /\ cb[1].failure_count <= cb[1].failure_threshold
    /\ cb[1].state = CLOSED => cb[1].failure_count < cb[1].failure_threshold
    /\ cb[1].state \in {OPEN, HALF_OPEN} =>
          cb[1].failure_count = cb[1].failure_threshold

\* A trial call has failed: the breaker went from HalfOpen back to Open
\* with failure_count still at a threshold of 2.
C25_Witness ==
    /\ op.name = "record_failure"
    /\ op.pre.state = HALF_OPEN
    /\ cb[1].state = OPEN
    /\ cb[1].failure_threshold = 2
    /\ cb[1].failure_count = 2

\* C24: Open with last_failure_time unset is never reached, every Open
\* breaker eventually becomes HalfOpen, and every HalfOpen breaker
\* eventually becomes Closed, so that Closed is reached again from every
\* state.
C24_NoTerminalState ==
    /\ [](cb[1].state = OPEN => cb[1].last_failure_time # NoTime)
    /\ (cb[1].state = OPEN) ~> (cb[1].state = HALF_OPEN)
    /\ (cb[1].state = HALF_OPEN) ~> (cb[1].state = CLOSED)

\* A trial call that followed a failed trial call has closed the breaker:
\* it has been Open twice and is Closed again.
C24_Witness ==
    /\ op.name = "record_success"
    /\ op.pre.state = HALF_OPEN
    /\ op.pre.last_failure_time > 0
    /\ cb[1].state = CLOSED

====
